---- MODULE Spec2Model ----
(***************************************************************************)
(* RFM69 transport of MySensors (hal/transport/RFM69/MyTransportRFM69.cpp). *)
(*                                                                         *)
(* Two execution contexts are modelled: the polling context (the calls of  *)
(* the transport API, one at a time, position in `pc') and the interrupt   *)
(* context (transportRxCallback), which runs to completion and may preempt *)
(* the polling context between any two of its steps.                       *)
(*                                                                         *)
(* The CircularBuffer template and the RFM69 drivers are not part of the   *)
(* file; they are modelled from the specification (ReceiveQueue, section   *)
(* 4.1; ModeController, section 4.2; RadioDriver capability set, section   *)
(* 6).                                                                     *)
(***************************************************************************)
EXTENDS Integers, Sequences, FiniteSets

(***************************************************************************)
(* Bounds of the model.                                                    *)
(***************************************************************************)
\* largest configured MY_RX_MESSAGE_BUFFER_SIZE explored by Spec
MaxQueue == 2
\* MAX_MESSAGE_LENGTH, scaled down: the size of m_data and of the caller's buffer
MaxMsgLen == 2
\* frames discarded on overflow in one run of Spec
MaxDropped == 2
\* frames discarded on overflow in one run of SpecSat
MaxOverflows == 400
\* retries of RFM69_sendWithRetry when the caller gives none
DefaultRetries == 1
\* events of a comparison run after transportInit
EquivLen == 4
\* RF69_MAX_DATA_LEN, scaled down: the old driver's DATA holds more than
\* MAX_MESSAGE_LENGTH bytes
RF69MaxDataLen == MaxMsgLen + 1

(***************************************************************************)
(* Program constants.                                                      *)
(***************************************************************************)
\* if (transportLostMessageCount < 255)
LostMax == 255
\* uint8_t RFM69_psk[16]
PskLen == 16
\* transportSetTxPowerLevel: range 0..23
MaxPowerLevel == 23

\* the null pointer: no slot
NULL == -1
\* no key installed
NoKey == <<>>
\* history value: the dequeue removed nothing
NoFrame == <<>>

Min(a, b) == IF a < b THEN a ELSE b

\* Frames the radio delivers in Spec: different lengths, overlapping bytes.
Frames == {<<1>>, <<2, 1>>}
\* The only frame of SpecSat.
SatFrames == {<<1>>}
\* Frames the old driver's radio delivers: of every length its DATA can hold.
OldFrames == {[i \in 1..n |-> n + 1 - i] : n \in 1..RF69MaxDataLen}
\* The frames A, B, C, D, E of the overflow scenario, in arrival order.
ScenarioFrames == << <<1>>, <<2>>, <<3>>, <<4>>, <<5>> >>
\* The scenario's capacity: all of its frames but the last fit.
ScenarioSize == Len(ScenarioFrames) - 1

\* Power levels a caller asks for: the ends of the range, the first value
\* beyond it, the largest uint8_t.
PowerLevels == {0, MaxPowerLevel, MaxPowerLevel + 1, 255}

\* Key material: the persisted AES key and the configured passphrase.
EepromKey == [i \in 1..PskLen |-> i]
SimplePasswd == <<7, 8, 9>>
ZeroKey == [i \in 1..PskLen |-> 0]

\* Build-time configurations: driver variant, MY_RX_MESSAGE_BUFFER_FEATURE,
\* ATC (neither MY_GATEWAY_FEATURE nor MY_RFM69_ATC_MODE_DISABLED),
\* MY_RFM69_ENABLE_ENCRYPTION, MY_ENCRYPTION_SIMPLE_PASSWD.
BufferedBuild ==
  [driver |-> "new", rxbuf |-> TRUE, atc |-> TRUE, enc |-> TRUE, simple |-> FALSE]
Builds ==
  { BufferedBuild,
    [driver |-> "new", rxbuf |-> FALSE, atc |-> FALSE, enc |-> FALSE, simple |-> FALSE],
    [driver |-> "new", rxbuf |-> FALSE, atc |-> TRUE, enc |-> TRUE, simple |-> TRUE],
    [driver |-> "old", rxbuf |-> FALSE, atc |-> FALSE, enc |-> TRUE, simple |-> FALSE],
    [driver |-> "old", rxbuf |-> FALSE, atc |-> FALSE, enc |-> FALSE, simple |-> FALSE] }
\* The synchronous build of a comparison run: the old driver, no encryption.
SyncBuild ==
  [driver |-> "old", rxbuf |-> FALSE, atc |-> FALSE, enc |-> FALSE, simple |-> FALSE]

\* Events of a comparison run: the frames A and B arrive, the caller asks
\* transportAvailable, the caller calls transportReceive.
Events == {"A", "B", "available", "receive"}
EventFrame(e) == IF e = "A" THEN <<1>> ELSE <<2, 1>>
\* Every run: transportInit, then EquivLen events.
Scripts == {<<"init">> \o s : s \in [1..EquivLen -> Events]}

VARIABLES
  build,                     \* the build-time configuration
  m_size,                    \* CircularBuffer: capacity N
  head,                      \* CircularBuffer: index of the oldest frame
  tail,                      \* CircularBuffer: index of the next free slot
  count,                     \* CircularBuffer: frames held
  transportRxQueueStorage,   \* slot index -> [m_len, m_data]
  transportLostMessageCount, \* uint8_t, saturating
  radioMode,                 \* RFM69.radioMode
  RFM69_tx_completed,        \* latched by the callback
  callbackRegistered,        \* RFM69_registerReceiveCallback was called
  irqAttached,               \* driver: brought up, its interrupt line is live
  RFM69_ATC,                 \* driver: ATC mode enabled
  RFM69_key,                 \* driver: installed key, or NoKey
  RFM69_psk,                 \* transportInit's local key buffer, as it was left
  pc,                        \* position of the polling context
  msg,                       \* transportReceive: slot returned by getBack, or NULL
  len,                       \* transportReceive: local len
  data,                      \* the caller's receive buffer
  send,                      \* transportSend in progress
  last,                      \* the last completed call and what it returned
  pending,                   \* history: frames enqueued and not yet dequeued
  dropped,                   \* history: frames discarded because the queue was full
  torn,                      \* history: the callback wrote the slot being read
  delivered,                 \* history: <<the frame the last dequeue removed>>, or NoFrame
  unreadFrames,              \* driver: frames reported and not yet read with RFM69_readMessage
  RFM69_powerLevel,          \* driver: transmit power level
  _radio,                    \* old driver: DATALEN, DATA, ACK_REQUESTED, PAYLOADLEN
  acks,                      \* history: sendACK calls of the last transportReceive
  avail,                     \* history: <<result of transportAvailable>> since the last transportReceive
  script,                    \* environment: the events still to come in a scripted run
  scenario,                  \* environment: the whole script of a comparison run
  obs,                       \* environment: what the caller has observed in this run
  obsRef                     \* environment: what the caller observed in the reference run

qvars == <<m_size, head, tail, count, transportRxQueueStorage>>
rvars == <<msg, len, data>>
dvars == <<callbackRegistered, irqAttached, RFM69_ATC, RFM69_key, RFM69_psk>>
\* the old driver's receiver and the transmit power
xvars == <<RFM69_powerLevel, _radio, acks>>
\* the environment of a scripted run
evars == <<script, scenario, obs, obsRef>>
vars == <<build, qvars, transportLostMessageCount, radioMode, RFM69_tx_completed,
          dvars, pc, rvars, send, last, pending, dropped, torn, delivered,
          unreadFrames, xvars, avail, evars>>

Modes == {"STDBY", "RX", "TX", "SLEEP", "OFF"}
EmptySlot == [m_len |-> 0, m_data |-> [i \in 1..MaxMsgLen |-> 0]]
\* transportSend in progress: the <<retries, timeout>> given to sendWithRetry
\* (<<>> when the call leaves them to their defaults) and the transmissions it
\* may still make
NoSend == [noACK |-> FALSE, args |-> <<>>, left |-> 0]
\* the old driver's receiver with no frame: DATALEN = 0, PAYLOADLEN = 0
NoPacket ==
  [DATALEN |-> 0, DATA |-> [i \in 1..RF69MaxDataLen |-> 0],
   ACK_REQUESTED |-> FALSE, PAYLOADLEN |-> 0]

(***************************************************************************)
(* Construction: the static initialisers of the file.                      *)
(***************************************************************************)
InitWith(builds, sizes, frames) ==
  /\ build \in builds
  /\ m_size \in sizes
  /\ head = 0
  /\ tail = 0
  /\ count = 0
  /\ transportRxQueueStorage = [i \in 0..(m_size - 1) |-> EmptySlot]
  /\ transportLostMessageCount = 0
  /\ radioMode = "STDBY"
  /\ RFM69_tx_completed = FALSE
  /\ callbackRegistered = FALSE
  /\ irqAttached = FALSE
  /\ RFM69_ATC = FALSE
  /\ RFM69_key = NoKey
  /\ RFM69_psk = ZeroKey
  /\ pc = "idle"
  /\ msg = NULL
  /\ len = 0
  /\ data = [i \in 1..MaxMsgLen |-> 0]
  /\ send = NoSend
  /\ last = [op |-> "none"]
  /\ pending = <<>>
  /\ dropped = 0
  /\ torn = FALSE
  /\ delivered = NoFrame
  /\ unreadFrames = 0
  /\ RFM69_powerLevel = 0
  /\ _radio = NoPacket
  /\ acks = 0
  /\ avail = <<>>
  /\ script = frames
  /\ scenario = frames
  /\ obs = <<>>
  /\ obsRef = <<>>

Init == InitWith(Builds, 1..MaxQueue, <<>>)

(***************************************************************************)
(* ReceiveQueue (CircularBuffer<transportQueuedMessage>).                  *)
(***************************************************************************)
\* variant: the full test is off by one
full_offByOne == count = m_size + 1
full == count = m_size
empty == count = 0
\* the slot the producer may fill, NULL when there is none
getFront == IF full THEN NULL ELSE tail
\* the slot of the oldest frame, NULL when there is none
getBack == IF empty THEN NULL ELSE head

\* publish the slot at tail
pushFront ==
  IF full
    THEN UNCHANGED <<tail, count>>
    ELSE /\ tail' = (tail + 1) % m_size
         /\ count' = count + 1

\* free the slot at head
popBack ==
  IF empty
    THEN UNCHANGED <<head, count>>
    ELSE /\ head' = (head + 1) % m_size
         /\ count' = count - 1

(***************************************************************************)
(* RadioDriver.                                                            *)
(***************************************************************************)
\* RFM69_readMessage(buf): the payload overwrites the first Len(f) bytes of buf
readInto(buf, f) == [i \in 1..MaxMsgLen |-> IF i <= Len(f) THEN f[i] ELSE buf[i]]

\* memcpy(dst, src, n)
memcpy(dst, src, n) == [i \in 1..MaxMsgLen |-> IF i <= n THEN src[i] ELSE dst[i]]

\* the frame a caller sees: the first n bytes of its buffer
Prefix(buf, n) == [i \in 1..n |-> buf[i]]

RFM69_setRadioMode(m) == radioMode' = m

\* driver bring-up; result: whether it succeeds. On success the radio receives
\* and its interrupt line is live; on failure the driver is left as it was.
RFM69_initialise(result) ==
  /\ radioMode' = IF result THEN "RX" ELSE radioMode
  /\ irqAttached' = (irqAttached \/ result)

\* RFM69_interruptHandling found a frame: one more receive-complete condition
\* stands in the radio; n: the conditions standing before
frameReported(n) == n + 1

\* RFM69_readMessage(buffer or NULL) clears the receive-complete condition of
\* one frame
RFM69_readMessage(n) == n - 1

\* the key the driver is given: 16 bytes read from the buffer
KeyOf(buf) == [i \in 1..PskLen |-> buf[i]]

(***************************************************************************)
(* Interrupt context.                                                      *)
(***************************************************************************)
\* the polling context is between getBack and popBack, reading slot msg
reading == pc \in {"rx_len", "rx_copy", "rx_pop"} /\ msg # NULL

\* variant: the uint8_t counter is incremented without the test and wraps
lostAfterDiscard_wrapping == (transportLostMessageCount + 1) % (LostMax + 1)

\* Keep track of messages lost. Max 255, prevent wrapping.
lostAfterDiscard ==
  IF transportLostMessageCount < LostMax
    THEN transportLostMessageCount + 1
    ELSE transportLostMessageCount

\* variant: the frame is read into the slot and the slot is not published
rxEnqueue_unpublished(f) ==
  LET slot == getFront
  IN /\ transportRxQueueStorage' =
          [transportRxQueueStorage EXCEPT
             ![slot] = [m_len |-> Len(f), m_data |-> readInto(@.m_data, f)]]
     /\ torn' = (torn \/ (reading /\ slot = msg))
     /\ unreadFrames' = RFM69_readMessage(frameReported(unreadFrames))
     /\ UNCHANGED <<m_size, head, tail, count, transportLostMessageCount>>

\* the RX branch with a frame received, the queue not full
rxEnqueue(f) ==
  LET slot == getFront
  IN /\ transportRxQueueStorage' =
          [transportRxQueueStorage EXCEPT
             ![slot] = [m_len |-> Len(f), m_data |-> readInto(@.m_data, f)]]
     /\ pushFront
     /\ torn' = (torn \/ (reading /\ slot = msg))
     /\ unreadFrames' = RFM69_readMessage(frameReported(unreadFrames))
     /\ UNCHANGED <<m_size, head, transportLostMessageCount>>

\* variant: the frame that finds the queue full is read into the newest slot
rxDiscard_overwriteNewest(f) ==
  LET slot == (tail + m_size - 1) % m_size
  IN /\ transportRxQueueStorage' =
          [transportRxQueueStorage EXCEPT
             ![slot] = [m_len |-> Len(f), m_data |-> readInto(@.m_data, f)]]
     /\ transportLostMessageCount' = lostAfterDiscard
     /\ unreadFrames' = RFM69_readMessage(frameReported(unreadFrames))
     /\ UNCHANGED <<m_size, head, tail, count, torn>>

\* variant: the frame that finds the queue full replaces the oldest one
rxDiscard_dropOldest(f) ==
  /\ transportRxQueueStorage' =
       [transportRxQueueStorage EXCEPT
          ![head] = [m_len |-> Len(f), m_data |-> readInto(@.m_data, f)]]
  /\ head' = (head + 1) % m_size
  /\ tail' = (tail + 1) % m_size
  /\ transportLostMessageCount' = lostAfterDiscard
  /\ unreadFrames' = RFM69_readMessage(frameReported(unreadFrames))
  /\ UNCHANGED <<m_size, count, torn>>

\* variant: the frame that finds the queue full is counted and left in the radio
rxDiscard_noRead(f) ==
  /\ transportLostMessageCount' = lostAfterDiscard
  /\ unreadFrames' = frameReported(unreadFrames)
  /\ UNCHANGED <<qvars, torn>>

\* variant: the frame that finds the queue full empties it
rxDiscard_flush(f) ==
  /\ head' = tail
  /\ count' = 0
  /\ transportLostMessageCount' = lostAfterDiscard
  /\ unreadFrames' = RFM69_readMessage(frameReported(unreadFrames))
  /\ UNCHANGED <<m_size, tail, transportRxQueueStorage, torn>>

\* the RX branch with a frame received, the queue full
rxDiscard(f) ==
  /\ transportLostMessageCount' = lostAfterDiscard
  /\ unreadFrames' = RFM69_readMessage(frameReported(unreadFrames))
  /\ UNCHANGED <<qvars, torn>>

\* variant: the flag is latched and the radio is left as it is
rxTxCompleted_flagOnly ==
  /\ RFM69_tx_completed' = TRUE
  /\ UNCHANGED radioMode

\* the branch taken when the radio is not receiving
rxTxCompleted ==
  /\ RFM69_tx_completed' = TRUE
  /\ RFM69_setRadioMode("RX")

\* dataReceived: what RFM69_interruptHandling found; f: the frame in the radio
transportRxCallback(dataReceived, f) ==
  /\ build.driver = "new" /\ build.rxbuf
  /\ callbackRegistered /\ irqAttached
  /\ IF radioMode = "RX"
       THEN /\ IF dataReceived
                 THEN IF ~full THEN rxEnqueue(f) ELSE rxDiscard(f)
                 ELSE UNCHANGED <<qvars, transportLostMessageCount, torn,
                                  unreadFrames>>
            /\ UNCHANGED <<radioMode, RFM69_tx_completed>>
       ELSE /\ rxTxCompleted
            /\ UNCHANGED <<qvars, transportLostMessageCount, torn, unreadFrames>>
  \* history
  /\ pending' = IF radioMode = "RX" /\ dataReceived /\ ~full
                  THEN Append(pending, f) ELSE pending
  /\ dropped' = IF radioMode = "RX" /\ dataReceived /\ full
                  THEN dropped + 1 ELSE dropped
  /\ UNCHANGED <<build, xvars, avail, dvars, pc, rvars, send, last, delivered>>

(***************************************************************************)
(* Polling context: initialisation.                                        *)
(***************************************************************************)
\* the 16 bytes transportInit loads into RFM69_psk
loadedKey ==
  IF build.simple
    THEN [i \in 1..PskLen |->
            IF i <= Min(Len(SimplePasswd), PskLen) THEN SimplePasswd[i] ELSE 0]
    ELSE EepromKey

\* variant: the copy is left as it was loaded
installKey_unpurged ==
  IF build.enc
    THEN /\ RFM69_key' = KeyOf(loadedKey)
         /\ RFM69_psk' = loadedKey
    ELSE UNCHANGED <<RFM69_key, RFM69_psk>>

\* encryption block: the key is handed to the driver, then the copy is zeroed
installKey ==
  IF build.enc
    THEN /\ RFM69_key' = KeyOf(loadedKey)
         /\ RFM69_psk' = ZeroKey
    ELSE UNCHANGED <<RFM69_key, RFM69_psk>>

\* new driver; result: what RFM69_initialise returns
transportInit(result) ==
  /\ pc = "idle"
  /\ build.driver = "new"
  /\ callbackRegistered' = (callbackRegistered \/ build.rxbuf)
  /\ RFM69_initialise(result)
  /\ RFM69_ATC' = (RFM69_ATC \/ build.atc)
  /\ installKey
  /\ last' = [op |-> "init", ret |-> result]
  /\ UNCHANGED <<build, unreadFrames, xvars, avail, qvars, transportLostMessageCount, RFM69_tx_completed, pc,
                 rvars, send, pending, dropped, torn, delivered>>

\* old driver; result: what _radio.initialize returns
transportInit_old(result) ==
  /\ pc = "idle"
  /\ build.driver = "old"
  /\ IF result
       THEN /\ installKey
            /\ last' = [op |-> "init", ret |-> TRUE]
       ELSE /\ UNCHANGED <<RFM69_key, RFM69_psk>>
            /\ last' = [op |-> "init", ret |-> FALSE]
  /\ RFM69_initialise(result)
  /\ UNCHANGED <<build, unreadFrames, xvars, avail, qvars, transportLostMessageCount, RFM69_tx_completed, pc,
                 callbackRegistered, RFM69_ATC, rvars, send, pending, dropped, torn,
                 delivered>>

(***************************************************************************)
(* Polling context: transportSend.                                         *)
(***************************************************************************)
\* RFM69_sendWithRetry begins an attempt: the radio transmits
sendAttempt ==
  /\ RFM69_tx_completed' = FALSE
  /\ RFM69_setRadioMode("TX")

\* variant: the driver's outcome is returned whatever noACK is
sendResult_driver(noACK, ok) == ok

\* what transportSend hands to the caller; ok: what sendWithRetry returned
sendResult(noACK, ok) == IF noACK THEN TRUE ELSE ok

\* the same function of the old driver
sendResult_old(noACK, ok) == IF noACK THEN TRUE ELSE ok

\* the arguments of the sendWithRetry call
sendArgs(noACK) ==
  IF noACK
    THEN [noACK |-> TRUE, args |-> <<0, 0>>, left |-> 0]
    ELSE [noACK |-> FALSE, args |-> <<>>, left |-> DefaultRetries]

\* the call, up to the first transmission
transportSend_call(noACK) ==
  /\ pc = "idle"
  /\ pc' = "tx_wait"
  /\ send' = sendArgs(noACK)
  /\ sendAttempt
  /\ UNCHANGED <<build, unreadFrames, xvars, avail, qvars, transportLostMessageCount, dvars, rvars, last,
                 pending, dropped, torn, delivered>>

\* sendWithRetry transmits again after a missing acknowledgement
transportSend_retry ==
  /\ pc = "tx_wait"
  /\ send.left > 0
  /\ send' = [send EXCEPT !.left = @ - 1]
  /\ sendAttempt
  /\ UNCHANGED <<build, unreadFrames, xvars, avail, qvars, transportLostMessageCount, dvars, pc, rvars, last,
                 pending, dropped, torn, delivered>>

\* sendWithRetry returns ok and transportSend returns
transportSend_return(ok) ==
  /\ pc = "tx_wait"
  /\ pc' = "idle"
  /\ last' = [op |-> "send", noACK |-> send.noACK, args |-> send.args,
              driver |-> ok,
              ret |-> IF build.driver = "new"
                        THEN sendResult(send.noACK, ok)
                        ELSE sendResult_old(send.noACK, ok)]
  /\ send' = NoSend
  /\ UNCHANGED <<build, unreadFrames, xvars, avail, qvars, transportLostMessageCount, radioMode,
                 RFM69_tx_completed, dvars, rvars, pending, dropped, torn, delivered>>

(***************************************************************************)
(* Polling context: transportAvailable, interrupt-buffered configuration.  *)
(***************************************************************************)
\* RFM69_available(): the pump; the callback has taken every frame out of the
\* driver, the pump finds none and its result is dropped
RFM69_available == UNCHANGED <<radioMode, unreadFrames>>

\* variant: what the pump returned is returned
availableResult_pump == FALSE

\* return !transportRxQueue.empty();
availableResult == ~empty

transportAvailable ==
  /\ pc = "idle"
  /\ build.driver = "new" /\ build.rxbuf
  /\ RFM69_available
  /\ last' = [op |-> "available", ret |-> availableResult]
  /\ avail' = <<availableResult>>
  /\ UNCHANGED <<build, xvars, qvars, transportLostMessageCount, RFM69_tx_completed,
                 dvars, pc, rvars, send, pending, dropped, torn, delivered>>

(***************************************************************************)
(* Polling context: transportReceive, interrupt-buffered configuration.    *)
(***************************************************************************)
\* transportQueuedMessage* msg = transportRxQueue.getBack(); if (msg) ...
transportReceive_getBack ==
  /\ pc = "idle"
  /\ build.driver = "new" /\ build.rxbuf
  /\ msg' = getBack
  /\ len' = 0
  /\ avail' = <<>>
  /\ IF getBack = NULL
       THEN /\ pc' = "idle"
            /\ last' = [op |-> "receive", ret |-> 0]
            /\ delivered' = NoFrame
       ELSE /\ pc' = "rx_len"
            /\ UNCHANGED <<last, delivered>>
  /\ UNCHANGED <<build, unreadFrames, xvars, qvars, transportLostMessageCount, radioMode,
                 RFM69_tx_completed, dvars, data, send, pending, dropped, torn>>

\* variant: the whole of m_data is copied, whatever m_len says
transportReceive_len_max ==
  /\ pc = "rx_len"
  /\ len' = MaxMsgLen
  /\ pc' = "rx_copy"
  /\ UNCHANGED <<build, unreadFrames, xvars, avail, qvars, transportLostMessageCount, radioMode,
                 RFM69_tx_completed, dvars, msg, data, send, last, pending, dropped,
                 torn, delivered>>

\* len = msg->m_len;
transportReceive_len ==
  /\ pc = "rx_len"
  /\ len' = transportRxQueueStorage[msg].m_len
  /\ pc' = "rx_copy"
  /\ UNCHANGED <<build, unreadFrames, xvars, avail, qvars, transportLostMessageCount, radioMode,
                 RFM69_tx_completed, dvars, msg, data, send, last, pending, dropped,
                 torn, delivered>>

\* variant: the payload is not copied to the caller's buffer
transportReceive_memcpy_none ==
  /\ pc = "rx_copy"
  /\ pc' = "rx_pop"
  /\ UNCHANGED <<build, unreadFrames, xvars, avail, qvars, transportLostMessageCount,
                 radioMode, RFM69_tx_completed, dvars, rvars, send, last, pending,
                 dropped, torn, delivered>>

\* (void)memcpy(data, msg->m_data, len);
transportReceive_memcpy ==
  /\ pc = "rx_copy"
  /\ data' = memcpy(data, transportRxQueueStorage[msg].m_data, len)
  /\ pc' = "rx_pop"
  /\ UNCHANGED <<build, unreadFrames, xvars, avail, qvars, transportLostMessageCount, radioMode,
                 RFM69_tx_completed, dvars, msg, len, send, last, pending, dropped,
                 torn, delivered>>

\* variant: the frame is returned and its slot is not freed
transportReceive_popBack_keep ==
  /\ pc = "rx_pop"
  /\ pc' = "idle"
  /\ last' = [op |-> "receive", ret |-> len]
  /\ delivered' = IF pending = <<>> THEN NoFrame ELSE <<Head(pending)>>
  /\ UNCHANGED <<build, unreadFrames, xvars, avail, qvars, transportLostMessageCount,
                 radioMode, RFM69_tx_completed, dvars, rvars, send, pending, dropped,
                 torn>>

\* (void)transportRxQueue.popBack(); return len;
transportReceive_popBack ==
  /\ pc = "rx_pop"
  /\ popBack
  /\ pc' = "idle"
  /\ last' = [op |-> "receive", ret |-> len]
  /\ delivered' = IF pending = <<>> THEN NoFrame ELSE <<Head(pending)>>
  /\ pending' = IF pending = <<>> THEN pending ELSE Tail(pending)
  /\ UNCHANGED <<build, unreadFrames, xvars, avail, m_size, tail, transportRxQueueStorage,
                 transportLostMessageCount, radioMode, RFM69_tx_completed, dvars,
                 rvars, send, dropped, torn>>

\* variant: the slot is freed before it is copied out
transportReceive_popFirst ==
  \/ transportReceive_getBack
  \/ /\ pc = "rx_len"
     /\ popBack
     /\ pc' = "rx_copy"
     /\ UNCHANGED <<build, unreadFrames, xvars, avail, m_size, tail, transportRxQueueStorage,
                    transportLostMessageCount, radioMode, RFM69_tx_completed, dvars,
                    rvars, send, last, pending, dropped, torn, delivered>>
  \/ /\ pc = "rx_copy"
     /\ len' = transportRxQueueStorage[msg].m_len
     /\ pc' = "rx_pop"
     /\ UNCHANGED <<build, unreadFrames, xvars, avail, qvars, transportLostMessageCount, radioMode,
                    RFM69_tx_completed, dvars, msg, data, send, last, pending,
                    dropped, torn, delivered>>
  \/ /\ pc = "rx_pop"
     /\ data' = memcpy(data, transportRxQueueStorage[msg].m_data, len)
     /\ pc' = "idle"
     /\ last' = [op |-> "receive", ret |-> len]
     /\ delivered' = IF pending = <<>> THEN NoFrame ELSE <<Head(pending)>>
     /\ pending' = IF pending = <<>> THEN pending ELSE Tail(pending)
     /\ UNCHANGED <<build, unreadFrames, xvars, avail, qvars, transportLostMessageCount, radioMode,
                    RFM69_tx_completed, dvars, msg, len, send, dropped, torn>>

transportReceive ==
  \/ transportReceive_getBack
  \/ transportReceive_len
  \/ transportReceive_memcpy
  \/ transportReceive_popBack

(***************************************************************************)
(* Old driver: the receiver, transportAvailable and transportReceive.      *)
(***************************************************************************)
\* the driver's interrupt handler: a frame is stored while the radio receives
\* and holds none; otherwise the frame is missed. ack: the frame requests an
\* acknowledgement
radioIrq_old(f, ack) ==
  /\ build.driver = "old"
  /\ irqAttached
  /\ IF radioMode = "RX" /\ _radio.PAYLOADLEN = 0
       THEN _radio' = [DATALEN |-> Len(f),
                       DATA |-> [i \in 1..RF69MaxDataLen |->
                                   IF i <= Len(f) THEN f[i] ELSE _radio.DATA[i]],
                       ACK_REQUESTED |-> ack,
                       PAYLOADLEN |-> Len(f)]
       ELSE UNCHANGED _radio
  /\ UNCHANGED <<build, unreadFrames, RFM69_powerLevel, acks, avail, qvars,
                 transportLostMessageCount, radioMode, RFM69_tx_completed, dvars,
                 pc, rvars, send, last, pending, dropped, torn, delivered>>

\* _radio.receiveDone(): a frame is waiting in the receiving radio
receiveDone == radioMode = "RX" /\ _radio.PAYLOADLEN > 0

\* return _radio.receiveDone(); with a frame waiting the radio is put in
\* standby for the frame to be read; a radio that is not receiving is made to
\* receive, its receiver cleared
transportAvailable_old ==
  /\ pc = "idle"
  /\ build.driver = "old"
  /\ IF receiveDone
       THEN /\ RFM69_setRadioMode("STDBY")
            /\ UNCHANGED _radio
       ELSE IF radioMode = "RX"
         THEN UNCHANGED <<radioMode, _radio>>
         ELSE /\ RFM69_setRadioMode("RX")
              /\ _radio' = [_radio EXCEPT !.DATALEN = 0, !.PAYLOADLEN = 0,
                                          !.ACK_REQUESTED = FALSE]
  /\ last' = [op |-> "available", ret |-> receiveDone]
  /\ UNCHANGED <<build, unreadFrames, RFM69_powerLevel, acks, avail, qvars,
                 transportLostMessageCount, RFM69_tx_completed, dvars, pc, rvars,
                 send, pending, dropped, torn, delivered>>

\* variant: the driver's length is used as it is
dataLen_unclamped == _radio.DATALEN

\* dataLen = _radio.DATALEN < MAX_MESSAGE_LENGTH ? _radio.DATALEN : MAX_MESSAGE_LENGTH
dataLen == IF _radio.DATALEN < MaxMsgLen THEN _radio.DATALEN ELSE MaxMsgLen

\* _radio.sendACK(): an acknowledgement is transmitted, the request is served
sendACK ==
  /\ acks' = acks + 1
  /\ _radio' = [_radio EXCEPT !.ACK_REQUESTED = FALSE]

\* save payload length; memcpy(data, _radio.DATA, dataLen)
transportReceive_old_copy ==
  /\ pc = "idle"
  /\ build.driver = "old"
  /\ len' = dataLen
  /\ data' = memcpy(data, _radio.DATA, dataLen)
  /\ acks' = 0
  /\ pc' = "rx_ack"
  /\ UNCHANGED <<build, unreadFrames, RFM69_powerLevel, _radio, avail, qvars,
                 transportLostMessageCount, radioMode, RFM69_tx_completed, dvars,
                 msg, send, last, pending, dropped, torn, delivered>>

\* if (_radio.ACKRequested()) _radio.sendACK(); return dataLen;
transportReceive_old_ack ==
  /\ pc = "rx_ack"
  /\ IF _radio.ACK_REQUESTED THEN sendACK ELSE UNCHANGED <<_radio, acks>>
  /\ pc' = "idle"
  /\ last' = [op |-> "receive", ret |-> len]
  /\ UNCHANGED <<build, unreadFrames, RFM69_powerLevel, avail, qvars,
                 transportLostMessageCount, radioMode, RFM69_tx_completed, dvars,
                 rvars, send, pending, dropped, torn, delivered>>

transportReceive_old ==
  \/ transportReceive_old_copy
  \/ transportReceive_old_ack

(***************************************************************************)
(* Polling context: power operations.                                      *)
(***************************************************************************)
\* what the driver's mode is after a power request
RFM69_sleep == RFM69_setRadioMode("SLEEP")
RFM69_standBy == RFM69_setRadioMode("STDBY")
RFM69_powerDown == RFM69_setRadioMode("OFF")
RFM69_powerUp ==
  RFM69_setRadioMode(IF radioMode \in {"SLEEP", "OFF"} THEN "STDBY" ELSE radioMode)

powerFrame ==
  /\ pc = "idle"
  /\ UNCHANGED <<build, unreadFrames, xvars, avail, qvars, transportLostMessageCount, RFM69_tx_completed, dvars,
                 pc, rvars, send, last, pending, dropped, torn, delivered>>

transportSleep == RFM69_sleep /\ powerFrame
transportStandBy == RFM69_standBy /\ powerFrame
transportPowerDown == RFM69_powerDown /\ powerFrame
transportPowerUp == RFM69_powerUp /\ powerFrame

(***************************************************************************)
(* Polling context: transportSetTxPowerLevel.                              *)
(***************************************************************************)
\* what RFM69_setTxPowerLevel returns: the level is in the accepted range
RFM69_setTxPowerLevel(powerLevel) == powerLevel \in 0..MaxPowerLevel

\* return RFM69_setTxPowerLevel(powerLevel);
transportSetTxPowerLevel(powerLevel) ==
  /\ pc = "idle"
  /\ build.driver = "new"
  /\ RFM69_powerLevel' =
       IF RFM69_setTxPowerLevel(powerLevel) THEN powerLevel ELSE RFM69_powerLevel
  /\ last' = [op |-> "setTxPowerLevel", level |-> powerLevel,
              ret |-> RFM69_setTxPowerLevel(powerLevel)]
  /\ UNCHANGED <<build, unreadFrames, _radio, acks, avail, qvars,
                 transportLostMessageCount, radioMode, RFM69_tx_completed, dvars,
                 pc, rvars, send, pending, dropped, torn, delivered>>

\* variant: a level of the range is reported as set
setTxPowerLevelResult_old_inRange(powerLevel) == powerLevel <= MaxPowerLevel

\* not implemented: (void)powerLevel; return false;
setTxPowerLevelResult_old(powerLevel) == FALSE

transportSetTxPowerLevel_old(powerLevel) ==
  /\ pc = "idle"
  /\ build.driver = "old"
  /\ last' = [op |-> "setTxPowerLevel", level |-> powerLevel,
              ret |-> setTxPowerLevelResult_old(powerLevel)]
  /\ UNCHANGED <<build, unreadFrames, xvars, avail, qvars,
                 transportLostMessageCount, radioMode, RFM69_tx_completed, dvars,
                 pc, rvars, send, pending, dropped, torn, delivered>>

(***************************************************************************)
(* Specifications.                                                         *)
(***************************************************************************)
\* a frame arrives (or the interrupt fires with none) while the callback is installed
Interrupt(frames, maxDrops) ==
  \E dataReceived \in BOOLEAN, f \in frames :
    /\ (full => dropped < maxDrops)
    /\ transportRxCallback(dataReceived, f)
    /\ UNCHANGED evars

\* the frames of a scripted run arrive in order
ScriptedInterrupt ==
  /\ script # <<>>
  /\ radioMode = "RX"
  /\ transportRxCallback(TRUE, Head(script))
  /\ script' = Tail(script)
  /\ UNCHANGED <<scenario, obs, obsRef>>

Next ==
  \/ Interrupt(Frames, MaxDropped)
  \/ \E result \in BOOLEAN : transportInit(result) /\ UNCHANGED evars
  \/ \E result \in BOOLEAN : transportInit_old(result) /\ UNCHANGED evars
  \/ \E noACK \in BOOLEAN : transportSend_call(noACK) /\ UNCHANGED evars
  \/ transportSend_retry /\ UNCHANGED evars
  \/ \E ok \in BOOLEAN : transportSend_return(ok) /\ UNCHANGED evars
  \/ transportReceive /\ UNCHANGED evars
  \/ transportSleep /\ UNCHANGED evars
  \/ transportStandBy /\ UNCHANGED evars
  \/ transportPowerDown /\ UNCHANGED evars
  \/ transportPowerUp /\ UNCHANGED evars

Spec == Init /\ [][Next]_vars

\* Saturation runs: the same frame again and again, a run long enough for the
\* lost-message counter to reach its maximum and go on.
InitSat == InitWith({BufferedBuild}, 1..MaxQueue, <<>>)

NextSat ==
  \/ Interrupt(SatFrames, MaxOverflows)
  \/ \E result \in BOOLEAN : transportInit(result) /\ UNCHANGED evars
  \/ transportReceive /\ UNCHANGED evars

SpecSat == InitSat /\ [][NextSat]_vars

\* The overflow scenario: capacity 4, the frames A, B, C, D, E arrive in this
\* order, the polling context dequeues whenever it likes.
InitScenario == InitWith({BufferedBuild}, {ScenarioSize}, ScenarioFrames)

NextScenario ==
  \/ ScriptedInterrupt
  \/ \E result \in BOOLEAN : transportInit(result) /\ UNCHANGED evars
  \/ transportReceive /\ UNCHANGED evars

SpecScenario == InitScenario /\ [][NextScenario]_vars

\* The overflow scenario with a caller that goes on polling: a step of
\* transportReceive that is possible is eventually taken.
SpecLive ==
  /\ InitScenario
  /\ [][NextScenario]_vars
  /\ WF_vars(transportReceive /\ UNCHANGED evars)

\* Polling: the interrupt-buffered build, whose caller asks transportAvailable
\* and calls transportReceive in any order, frames arriving at any time.
InitPoll == InitWith({BufferedBuild}, 1..MaxQueue, <<>>)

NextPoll ==
  \/ Interrupt(Frames, MaxDropped)
  \/ \E result \in BOOLEAN : transportInit(result) /\ UNCHANGED evars
  \/ transportAvailable /\ UNCHANGED evars
  \/ transportReceive /\ UNCHANGED evars

SpecPoll == InitPoll /\ [][NextPoll]_vars

\* The old driver: frames of any length, with and without a request for
\* acknowledgement, arrive while the caller polls and receives.
OldBuilds == {b \in Builds : b.driver = "old"}

InitOld == InitWith(OldBuilds, {1}, <<>>)

NextOld ==
  \/ \E f \in OldFrames, ack \in BOOLEAN : radioIrq_old(f, ack) /\ UNCHANGED evars
  \/ \E result \in BOOLEAN : transportInit_old(result) /\ UNCHANGED evars
  \/ transportAvailable_old /\ UNCHANGED evars
  \/ transportReceive_old /\ UNCHANGED evars

SpecOld == InitOld /\ [][NextOld]_vars

\* Comparison runs: a script of events is played against the interrupt-
\* buffered build, what the caller observes is kept, and the same script is
\* played against the synchronous build from its initial state.
Bit(b) == IF b THEN 1 ELSE 0
\* what the caller sees of a transportReceive: the length and the bytes
Received(n, buf) == [i \in 1..(n + 1) |-> IF i = 1 THEN n ELSE buf[i - 1]]

InitEquiv == \E s \in Scripts : InitWith({BufferedBuild}, {MaxQueue}, s)

PlayInit ==
  /\ script # <<>> /\ Head(script) = "init"
  /\ transportInit(TRUE) \/ transportInit_old(TRUE)
  /\ script' = Tail(script)
  /\ obs' = Append(obs, <<Bit(last'.ret)>>)
  /\ UNCHANGED <<scenario, obsRef>>

PlayArrival ==
  /\ script # <<>> /\ Head(script) \in {"A", "B"}
  /\ pc = "idle"
  /\ \/ transportRxCallback(TRUE, EventFrame(Head(script)))
     \/ radioIrq_old(EventFrame(Head(script)), FALSE)
  /\ script' = Tail(script)
  /\ UNCHANGED <<scenario, obs, obsRef>>

PlayAvailable ==
  /\ script # <<>> /\ Head(script) = "available"
  /\ transportAvailable \/ transportAvailable_old
  /\ script' = Tail(script)
  /\ obs' = Append(obs, <<Bit(last'.ret)>>)
  /\ UNCHANGED <<scenario, obsRef>>

PlayReceive ==
  /\ script # <<>> /\ Head(script) = "receive"
  /\ transportReceive \/ transportReceive_old
  /\ IF pc' = "idle"
       THEN /\ script' = Tail(script)
            /\ obs' = Append(obs, Received(last'.ret, data'))
       ELSE UNCHANGED <<script, obs>>
  /\ UNCHANGED <<scenario, obsRef>>

\* the script is over: the synchronous build starts, as constructed
SwitchBuild ==
  /\ script = <<>> /\ pc = "idle"
  /\ build = BufferedBuild
  /\ build' = SyncBuild
  /\ head' = 0 /\ tail' = 0 /\ count' = 0
  /\ transportRxQueueStorage' = [i \in 0..(m_size - 1) |-> EmptySlot]
  /\ transportLostMessageCount' = 0
  /\ radioMode' = "STDBY"
  /\ RFM69_tx_completed' = FALSE
  /\ callbackRegistered' = FALSE /\ irqAttached' = FALSE /\ RFM69_ATC' = FALSE
  /\ RFM69_key' = NoKey /\ RFM69_psk' = ZeroKey
  /\ msg' = NULL /\ len' = 0 /\ data' = [i \in 1..MaxMsgLen |-> 0]
  /\ send' = NoSend
  /\ last' = [op |-> "none"]
  /\ pending' = <<>> /\ dropped' = 0 /\ torn' = FALSE /\ delivered' = NoFrame
  /\ unreadFrames' = 0 /\ RFM69_powerLevel' = 0 /\ _radio' = NoPacket
  /\ acks' = 0 /\ avail' = <<>>
  /\ script' = scenario
  /\ obsRef' = obs
  /\ obs' = <<>>
  /\ UNCHANGED <<m_size, pc, scenario>>

NextEquiv ==
  \/ PlayInit
  \/ PlayArrival
  \/ PlayAvailable
  \/ PlayReceive
  \/ SwitchBuild

SpecEquiv == InitEquiv /\ [][NextEquiv]_vars

\* Power: every build; the caller initialises, sets the transmit power level
\* and requests power modes.
InitPower == InitWith(Builds, {1}, <<>>)

NextPower ==
  \/ \E result \in BOOLEAN : transportInit(result) /\ UNCHANGED evars
  \/ \E result \in BOOLEAN : transportInit_old(result) /\ UNCHANGED evars
  \/ \E powerLevel \in PowerLevels :
       transportSetTxPowerLevel(powerLevel) /\ UNCHANGED evars
  \/ \E powerLevel \in PowerLevels :
       transportSetTxPowerLevel_old(powerLevel) /\ UNCHANGED evars
  \/ transportSleep /\ UNCHANGED evars
  \/ transportStandBy /\ UNCHANGED evars
  \/ transportPowerDown /\ UNCHANGED evars
  \/ transportPowerUp /\ UNCHANGED evars

SpecPower == InitPower /\ [][NextPower]_vars

(***************************************************************************)
(* Views of the state used by the properties.                              *)
(***************************************************************************)
\* the frame a slot holds
SlotFrame(i) ==
  Prefix(transportRxQueueStorage[i].m_data, transportRxQueueStorage[i].m_len)

\* the frames the queue holds, oldest first
Contents == [k \in 1..count |-> SlotFrame((head + k - 1) % m_size)]

\* the last transportReceive returned what the history says it removed
ReturnedMatches ==
  IF delivered = NoFrame
    THEN last.ret = 0
    ELSE /\ last.ret = Len(delivered[1])
         /\ last.ret <= MaxMsgLen
         /\ Prefix(data, last.ret) = delivered[1]

received == pc = "idle" /\ last.op = "receive"

\* the frames of the scenario that fit: A, B, C, D
Fitting == SubSeq(ScenarioFrames, 1, ScenarioSize)

(***************************************************************************)
(* Properties.                                                             *)
(***************************************************************************)

\* C1: in every reachable state, with the callback preempting transportReceive
\* at any step, the number of frames held in the receive queue is between 0
\* and its capacity N, and it is the number of frames enqueued and not yet
\* dequeued.
CountWithinCapacity ==
  /\ 0 <= count
  /\ count <= m_size
  /\ count = Len(pending)

\* C1 witness: the queue is full, a frame has already been turned away, and
\* the polling context is in the middle of a dequeue.
CountWithinCapacity_witness ==
  /\ count = m_size
  /\ m_size = MaxQueue
  /\ dropped > 0
  /\ pc = "rx_copy"

\* the outcome of the scenario once E has arrived at the full queue
ScenarioOutcome ==
  (script = <<>> /\ dropped = 1) =>
    /\ transportLostMessageCount = 1
    /\ \E k \in 0..ScenarioSize : pending = SubSeq(Fitting, k + 1, ScenarioSize)
    /\ Contents = pending
    /\ (received /\ delivered # NoFrame) =>
          /\ delivered[1] = Fitting[ScenarioSize - Len(pending)]
          /\ ReturnedMatches
    /\ (received /\ delivered = NoFrame) => last.ret = 0
    /\ (pending = <<>>) => getBack = NULL

\* C2: a frame that arrives while the queue is full leaves the queue's
\* contents, head, tail and count as they were and adds exactly 1 to the lost
\* counter when that was below 255; and in the scenario (N = 4; A, B, C, D,
\* then E) the lost counter is 1, the dequeues return A, B, C, D in this
\* order, and the queue is empty for the fifth.
OverflowLeavesQueue ==
  /\ [][dropped' # dropped =>
          /\ UNCHANGED qvars
          /\ Contents' = Contents
          /\ transportLostMessageCount' =
               IF transportLostMessageCount < LostMax
                 THEN transportLostMessageCount + 1
                 ELSE transportLostMessageCount]_vars
  /\ []ScenarioOutcome

\* C2 witness: E was turned away, A, B, C, D have been dequeued and a fifth
\* dequeue has returned nothing.
OverflowLeavesQueue_witness ==
  /\ script = <<>>
  /\ dropped = 1
  /\ transportLostMessageCount = 1
  /\ pending = <<>>
  /\ received
  /\ delivered = NoFrame
  /\ last.ret = 0

\* C3: the lost counter equals min(255, frames discarded because the queue
\* was full) in every reachable state, and no step makes it smaller.
LostSaturates ==
  /\ [](transportLostMessageCount = Min(LostMax, dropped))
  /\ [][transportLostMessageCount' >= transportLostMessageCount]_vars

\* C3 witness: after MaxOverflows (400) discarded frames the counter reads 255.
LostSaturates_witness ==
  /\ dropped = MaxOverflows
  /\ dropped > LostMax
  /\ transportLostMessageCount = LostMax

\* C4: as long as no frame has been discarded, each transportReceive that
\* returns a frame returns the oldest frame read by the callback and not yet
\* returned, with its length and its bytes.
FifoWithoutOverflow == (dropped = 0 /\ received) => ReturnedMatches

\* C4 witness: a one-byte frame was returned from a slot and into a buffer
\* that held a two-byte frame before, with more frames waiting.
FifoWithoutOverflow_witness ==
  /\ dropped = 0
  /\ received
  /\ delivered = << <<1>> >>
  /\ last.ret = 1
  /\ data = <<1, 1>>
  /\ pending # <<>>

\* C5: the queue holds exactly the frames that found it not full and were not
\* yet dequeued, in arrival order, whatever number of frames was discarded;
\* and each transportReceive returns the oldest of them.
DropNewest ==
  /\ Contents = pending
  /\ received => ReturnedMatches

\* C5 witness: after an overflow a frame has been returned and another one is
\* still buffered.
DropNewest_witness ==
  /\ dropped > 0
  /\ received
  /\ delivered # NoFrame
  /\ pending # <<>>

\* C6: a callback invoked while the radio transmits latches the
\* transmission-complete flag and sets the mode to Receiving; while a send
\* waits, a reported completion means the mode is Receiving.
TxCompleteReturnsToRx ==
  /\ [][(radioMode = "TX" /\ \E d \in BOOLEAN, f \in Frames : transportRxCallback(d, f))
          => (radioMode' = "RX" /\ RFM69_tx_completed')]_vars
  /\ []((pc = "tx_wait" /\ RFM69_tx_completed) => radioMode = "RX")

\* C6 witness: a send is waiting, completion has been reported and the radio
\* receives again.
TxCompleteReturnsToRx_witness ==
  /\ pc = "tx_wait"
  /\ RFM69_tx_completed
  /\ radioMode = "RX"

\* C7: the callback changes the radio mode only from Transmitting to
\* Receiving; fired in any other mode it leaves the mode as it is.
InterruptOnlyAutoReturns ==
  [][(\E d \in BOOLEAN, f \in Frames : transportRxCallback(d, f))
       => (radioMode' = radioMode \/ (radioMode = "TX" /\ radioMode' = "RX"))]_vars

\* C8: transportSend with noACK returns true whatever sendWithRetry returned,
\* and gave it 0 retries and 0 timeout; without noACK it returns what
\* sendWithRetry returned. In both driver variants.
SendReturns ==
  last.op = "send" =>
    /\ last.ret = (IF last.noACK THEN TRUE ELSE last.driver)
    /\ last.noACK => last.args = <<0, 0>>

\* C8 witness: a noACK send of the old driver returned true although
\* sendWithRetry returned false.
SendReturns_witness ==
  /\ last.op = "send"
  /\ build.driver = "old"
  /\ last.noACK
  /\ ~last.driver
  /\ last.ret

\* C9: a transportInit that returns false leaves no state behind: no callback
\* installed, no mode set, no ATC and no key configured.
FailedInitLeavesNothing ==
  [][(last' # last /\ last'.op = "init" /\ ~last'.ret)
       => UNCHANGED <<callbackRegistered, radioMode, RFM69_ATC, RFM69_key>>]_vars

\* C10: while transportReceive is between getBack and popBack, the callback
\* has not written the slot it reads: that slot is the head of the queue and
\* holds the oldest frame not yet dequeued, and what was read so far is of
\* that frame.
NoPartialFrame ==
  /\ ~torn
  /\ reading =>
       /\ pending # <<>>
       /\ msg = head
       /\ SlotFrame(msg) = Head(pending)
       /\ pc \in {"rx_copy", "rx_pop"} => len = Len(Head(pending))
       /\ pc = "rx_pop" => Prefix(data, len) = Head(pending)

\* C10 witness: the queue is full, a frame has been turned away, and the
\* polling context has copied the oldest frame and not yet freed its slot.
NoPartialFrame_witness ==
  /\ reading
  /\ pc = "rx_pop"
  /\ count = m_size
  /\ dropped > 0

\* the step in which transportReceive returns a frame
returning == pc = "rx_pop" /\ pc' = "idle"

\* C11: under every interleaving of the callback with transportReceive each
\* frame read from the radio is in exactly one place. A step that returns a
\* frame returns the oldest buffered frame and removes it from the queue; any
\* other step leaves the buffered frames as they are, or appends one frame the
\* radio delivered, or counts one frame as discarded; the queue holds the
\* frames accepted and not yet returned, so none is returned twice and none
\* disappears uncounted.
NoFrameLostOrDuplicated ==
  /\ [](Contents = pending)
  /\ [][IF returning
          THEN /\ Contents # <<>>
               /\ delivered' = <<Head(Contents)>>
               /\ Contents' = Tail(Contents)
               /\ dropped' = dropped
          ELSE \/ Contents' = Contents /\ dropped' = dropped
               \/ Contents' = Contents /\ dropped' = dropped + 1
               \/ /\ \E f \in Frames : Contents' = Append(Contents, f)
                  /\ dropped' = dropped]_vars

\* C11 witness: the largest queue has been full, the allowed number of frames
\* was discarded, and a frame has just been returned, leaving one slot free.
NoFrameLostOrDuplicated_witness ==
  /\ received
  /\ delivered # NoFrame
  /\ m_size = MaxQueue
  /\ count = m_size - 1
  /\ dropped = MaxDropped

\* C12: interrupt-buffered build. transportReceive on an empty queue returns 0
\* and leaves the queue and the caller's buffer as they were; on a non-empty
\* queue the returning step removes exactly the oldest frame, whose payload is
\* in the caller's buffer and whose length is returned; frames leave the
\* queue in no other step; the returned length is at most MAX_MESSAGE_LENGTH.
ReceiveDequeuesOldest ==
  /\ [][(transportReceive_getBack /\ empty) =>
          /\ pc' = "idle"
          /\ last' = [op |-> "receive", ret |-> 0]
          /\ UNCHANGED <<qvars, data>>]_vars
  /\ [][returning =>
          /\ count' = count - 1
          /\ Contents' = Tail(Contents)
          /\ last'.op = "receive"
          /\ last'.ret = Len(Head(Contents))
          /\ Prefix(data', last'.ret) = Head(Contents)]_vars
  /\ [][count' < count => returning]_vars
  /\ [](last.op = "receive" => last.ret \in 0..MaxMsgLen)

\* C12 witness: the two-byte frame has been returned from the largest queue
\* into a buffer, and the frames behind it are still queued.
ReceiveDequeuesOldest_witness ==
  /\ received
  /\ last.ret = 2
  /\ data = <<2, 1>>
  /\ m_size = MaxQueue
  /\ count = m_size - 1
  /\ delivered = << <<2, 1>> >>

\* C13: interrupt-buffered build. transportAvailable returns true exactly when
\* the queue holds at least one frame at the moment of the call, and the call
\* leaves the queue, its frames and the lost counter as they were.
AvailableIffFrameQueued ==
  [][transportAvailable =>
       /\ last'.op = "available"
       /\ last'.ret = (count >= 1)
       /\ last'.ret = (Contents # <<>>)
       /\ UNCHANGED <<qvars, transportLostMessageCount, pending, dropped>>
       /\ Contents' = Contents]_vars

\* C13 witness: transportAvailable has answered true with the largest queue
\* full and frames already discarded.
AvailableIffFrameQueued_witness ==
  /\ last = [op |-> "available", ret |-> TRUE]
  /\ avail = <<TRUE>>
  /\ m_size = MaxQueue
  /\ count = m_size
  /\ dropped > 0

\* C19: interrupt-buffered build. While a true answer of transportAvailable
\* stands (no transportReceive was called since), the queue is not empty,
\* whatever interrupts fired, and the transportReceive that follows it gets a
\* slot from getBack. A false answer is given on an empty queue, and while
\* it stands the queue can only have gained frames.
AvailableThenReceive ==
  /\ [](avail = <<TRUE>> => ~empty)
  /\ [][(avail = <<TRUE>> /\ avail' = <<>>) => (msg' # NULL /\ pc' = "rx_len")]_vars
  /\ [][(avail # <<FALSE>> /\ avail' = <<FALSE>>) => empty']_vars
  /\ [][(avail = <<FALSE>> /\ avail' = <<FALSE>>) => count' >= count]_vars

\* C19 witness: transportAvailable answered true, then a frame was discarded
\* at the full queue, and the transportReceive that followed holds a slot.
AvailableThenReceive_witness ==
  /\ last = [op |-> "available", ret |-> TRUE]
  /\ avail = <<>>
  /\ pc = "rx_len"
  /\ msg # NULL
  /\ m_size = 1
  /\ dropped = MaxDropped

\* C14: every run of the callback in RX mode with a frame received calls
\* RFM69_readMessage exactly once, into the slot when the queue has room and
\* with a null buffer when it is full: no receive-complete condition is left
\* standing in the radio, and none is cleared twice.
ReadOncePerFrame ==
  /\ [](unreadFrames = 0)
  /\ [][(Len(pending') > Len(pending) \/ dropped' > dropped)
          => unreadFrames' = unreadFrames]_vars

\* C14 witness: frames were read into the slots of the queue until it was
\* full and then read with a null buffer, the radio still receiving.
ReadOncePerFrame_witness ==
  /\ unreadFrames = 0
  /\ radioMode = "RX"
  /\ count = m_size
  /\ dropped = MaxDropped
  /\ transportLostMessageCount = MaxDropped
  /\ pc = "idle"

\* C18: old driver. transportReceive copies min(DATALEN, MAX_MESSAGE_LENGTH)
\* bytes of the driver's DATA into the caller's buffer, leaves the rest of the
\* buffer alone and returns that length; it calls sendACK once if the driver
\* reports an acknowledgement request and not at all otherwise, after the
\* copy and before it returns.
ReceiveOldCopiesAndAcks ==
  /\ [][(pc = "idle" /\ pc' = "rx_ack") =>
          /\ len' = Min(_radio.DATALEN, MaxMsgLen)
          /\ \A i \in 1..MaxMsgLen :
                data'[i] = IF i <= len' THEN _radio.DATA[i] ELSE data[i]
          /\ acks' = 0]_vars
  /\ [][(pc = "rx_ack" /\ pc' = "idle") =>
          /\ last' = [op |-> "receive", ret |-> len]
          /\ data' = data
          /\ acks' = IF _radio.ACK_REQUESTED THEN 1 ELSE 0]_vars
  /\ [][acks' > acks => (pc = "rx_ack" /\ pc' = "idle")]_vars
  /\ [](last.op = "receive" => last.ret <= MaxMsgLen)

\* C18 witness: a frame longer than MAX_MESSAGE_LENGTH that requested an
\* acknowledgement was received: its first MAX_MESSAGE_LENGTH bytes were
\* copied and one acknowledgement was sent.
ReceiveOldCopiesAndAcks_witness ==
  /\ build.driver = "old"
  /\ received
  /\ _radio.DATALEN > MaxMsgLen
  /\ last.ret = MaxMsgLen
  /\ Prefix(data, MaxMsgLen) = Prefix(_radio.DATA, MaxMsgLen)
  /\ acks = 1

\* the script has been played against both builds
compared == build = SyncBuild /\ script = <<>> /\ pc = "idle" /\ scenario # <<>>

\* C15: the interrupt-buffered and the synchronous build are
\* indistinguishable to the caller: for the same frame arrivals and the same
\* calls of transportAvailable and transportReceive, the calls return the same
\* results and the same frames in the same order.
ConfigurationsIndistinguishable == compared => obs = obsRef

\* everything but the record of the last call
stateButLast ==
  <<build, qvars, transportLostMessageCount, radioMode, RFM69_tx_completed, dvars,
    pc, rvars, send, pending, dropped, torn, delivered, unreadFrames, xvars, avail,
    evars>>

\* C16: transportSetTxPowerLevel with a level above 23 returns false and
\* changes no state; with the old driver it returns false for every level and
\* changes no state.
PowerLevelRejected ==
  [][\A powerLevel \in PowerLevels :
       (/\ transportSetTxPowerLevel(powerLevel)
             \/ transportSetTxPowerLevel_old(powerLevel)
        /\ powerLevel > MaxPowerLevel \/ build.driver = "old")
         => /\ last' = [op |-> "setTxPowerLevel", level |-> powerLevel,
                        ret |-> FALSE]
            /\ UNCHANGED stateButLast]_vars

\* C16 witness: the new driver was set to level 23, then level 24 was asked
\* for: the call returned false and the level is still 23.
PowerLevelRejected_witness ==
  /\ build.driver = "new"
  /\ last = [op |-> "setTxPowerLevel", level |-> MaxPowerLevel + 1, ret |-> FALSE]
  /\ RFM69_powerLevel = MaxPowerLevel

\* C17: with encryption enabled, whenever transportInit has loaded key
\* material the driver holds that key, not a zeroed one, and the local copy
\* RFM69_psk is all zero when transportInit returns; no call leaves key
\* material in the local buffer.
KeyPurgedAfterInstall ==
  /\ RFM69_psk = ZeroKey
  /\ RFM69_key # NoKey =>
       (build.enc /\ RFM69_key = KeyOf(loadedKey) /\ RFM69_key # ZeroKey)
  /\ (build.enc /\ last.op = "init" /\ (build.driver = "new" \/ last.ret)) =>
       RFM69_key = KeyOf(loadedKey)

\* C17 witness: the passphrase build; transportInit loaded the passphrase,
\* padded with zeros, and returned false; the driver holds the key and the
\* local copy is zero.
KeyPurgedAfterInstall_witness ==
  /\ build.enc /\ build.simple
  /\ last = [op |-> "init", ret |-> FALSE]
  /\ RFM69_key = KeyOf(loadedKey)
  /\ RFM69_key[1] = SimplePasswd[1]
  /\ RFM69_psk = ZeroKey

\* C20: with a polling context that goes on calling transportReceive, every
\* frame the callback enqueued is eventually returned by transportReceive,
\* and once no more frames arrive the queue eventually is empty.
EveryFrameReturned ==
  /\ \A i \in 1..Len(ScenarioFrames) :
       (\E k \in 1..Len(pending) : pending[k] = ScenarioFrames[i])
         ~> (received /\ delivered = <<ScenarioFrames[i]>>)
  /\ (script = <<>>) ~> (count = 0 /\ pending = <<>>)

\* C20 witness: all frames have arrived, the last one was discarded, and the
\* last frame that was enqueued has just been returned, the queue empty.
EveryFrameReturned_witness ==
  /\ script = <<>>
  /\ dropped = 1
  /\ count = 0
  /\ received
  /\ delivered = <<ScenarioFrames[ScenarioSize]>>
====
